---- MODULE Spec2Model ----
(***************************************************************************)
(* A model of DTTT.py, the design-token converter: the colour codec        *)
(* (rgb_to_hex, hex_to_rgb_floats), the Tana Paste codec (json_to_tana,    *)
(* tana_to_json), the Affinity palette codec (json_to_affinity,            *)
(* affinity_to_json), the Adobe ASE placeholders and the dispatch done by  *)
(* main() when the Convert button is pressed.                              *)
(*                                                                         *)
(* Text is a sequence of one-character strings, so that strip, split,      *)
(* splitlines, lstrip and the regular expressions of the source act on     *)
(* characters as they do in Python; a literal message of the program is   *)
(* kept as one element.  NUL stands for the character \x00.  A Python dict *)
(* is a sequence of entries in insertion order with unique keys.  A        *)
(* payload (a text, a file, bytes) is a record: its kind, the data         *)
(* json.loads gives for it, its characters, and the $objects table         *)
(* plistlib.loads gives for it.                                            *)
(***************************************************************************)
EXTENDS Integers, Sequences, FiniteSets, TLC

VARIABLES pc,            \* position of the run: which function was applied last
          hex_str,       \* hex_to_rgb_floats: its argument
          rgb_string,    \* hex_to_rgb_floats: its return value / rgb_to_hex: its argument
          hex_val,       \* rgb_to_hex: its return value
          json_input,    \* json_to_tana, json_to_affinity: the JSON text given
          plist_bytes,   \* json_to_affinity: the container returned (or None)
          tana_input,    \* json_to_tana: the text returned / tana_to_json: its argument
          tokens,        \* affinity_to_json, tana_to_json: the JSON text returned
          intermediate,  \* main: the intermediate JSON of a two-step conversion
          source_format, \* main: st.selectbox("Source Format")
          target_format, \* main: st.selectbox("Target Format")
          source_data,   \* main: the uploaded file or the text area's text
          output,        \* main: the output shown after Convert
          st_error       \* main: the messages given to st.error

vars == <<pc, hex_str, rgb_string, hex_val, json_input, plist_bytes, tana_input,
          tokens, intermediate, source_format, target_format, source_data, output, st_error>>

-----------------------------------------------------------------------------
(* Bounds of the model. *)

\* Longest token name drawn over NameChars.
MaxNameLen == 3
\* Most tokens in a document.
MaxTokens == 2
\* Most entries after the first in an object table drawn for affinity_to_json.
MaxObjects == 3
\* Most lines in a Tana text drawn for tana_to_json.
MaxLines == 3

-----------------------------------------------------------------------------
(* Characters and Python's str methods. *)

NUL == "NUL"
Whitespace == {" ", "\n", "\t"}
LineBreaks == {"\n"}

Range(s) == {s[i] : i \in 1..Len(s)}

\* The first index >= i of s whose character is not in cs (Len(s)+1 if none).
RECURSIVE SkipFwd(_, _, _)
SkipFwd(s, i, cs) ==
    IF i > Len(s) THEN Len(s) + 1
    ELSE IF s[i] \in cs THEN SkipFwd(s, i + 1, cs) ELSE i

\* The last index <= i of s whose character is not in cs (0 if none).
RECURSIVE SkipBack(_, _, _)
SkipBack(s, i, cs) ==
    IF i < 1 THEN 0
    ELSE IF s[i] \in cs THEN SkipBack(s, i - 1, cs) ELSE i

\* str.lstrip(chars)
LStrip(s, cs) == SubSeq(s, SkipFwd(s, 1, cs), Len(s))

\* str.strip(chars)
StripChars(s, cs) ==
    LET a == SkipFwd(s, 1, cs) IN
    IF a > Len(s) THEN <<>> ELSE SubSeq(s, a, SkipBack(s, Len(s), cs))

\* str.strip()
Strip(s) == StripChars(s, Whitespace)

\* str.startswith(p)
StartsWith(s, p) == Len(s) >= Len(p) /\ SubSeq(s, 1, Len(p)) = p

\* The first index >= i at which p occurs in s (0 if none): str.find(p, i).
RECURSIVE Find(_, _, _)
Find(s, p, i) ==
    IF i + Len(p) - 1 > Len(s) THEN 0
    ELSE IF SubSeq(s, i, i + Len(p) - 1) = p THEN i ELSE Find(s, p, i + 1)

\* The first index >= i of s whose character is in cs (Len(s)+1 if none).
RECURSIVE FindIn(_, _, _)
FindIn(s, i, cs) ==
    IF i > Len(s) THEN Len(s) + 1
    ELSE IF s[i] \in cs THEN i ELSE FindIn(s, i + 1, cs)

\* str.split(): the maximal runs of non-whitespace characters, from index i on.
RECURSIVE SplitFrom(_, _)
SplitFrom(s, i) ==
    LET a == SkipFwd(s, i, Whitespace) IN
    IF a > Len(s) THEN <<>>
    ELSE LET b == FindIn(s, a, Whitespace) IN
         <<SubSeq(s, a, b - 1)>> \o SplitFrom(s, b)

Split(s) == SplitFrom(s, 1)

\* str.splitlines(): the lines of s from index i on; a final line break ends the
\* last line and starts no empty one.
RECURSIVE SplitLinesFrom(_, _)
SplitLinesFrom(s, i) ==
    IF i > Len(s) THEN <<>>
    ELSE LET b == FindIn(s, i, LineBreaks) IN
         <<SubSeq(s, i, b - 1)>> \o SplitLinesFrom(s, b + 1)

SplitLines(s) == SplitLinesFrom(s, 1)

\* "\n".join(lines)
RECURSIVE JoinLines(_)
JoinLines(lines) ==
    IF lines = <<>> THEN <<>>
    ELSE IF Len(lines) = 1 THEN lines[1]
    ELSE lines[1] \o <<"\n">> \o JoinLines(Tail(lines))

\* str.lower() on the letters the model uses.
LowerChar(c) ==
    CASE c = "C" -> "c" [] c = "O" -> "o" [] c = "L" -> "l" [] c = "R" -> "r"
      [] c = "T" -> "t" [] c = "Y" -> "y" [] c = "P" -> "p" [] c = "E" -> "e"
      [] c = "V" -> "v" [] c = "A" -> "a" [] c = "U" -> "u" [] c = "N" -> "n"
      [] c = "B" -> "b" [] c = "D" -> "d" [] c = "F" -> "f"
      [] OTHER -> c

Lower(s) == [i \in 1..Len(s) |-> LowerChar(s[i])]

\* The sequences over cs of length at most n.
SeqsUpTo(cs, n) == UNION {[1..k -> cs] : k \in 0..n}

-----------------------------------------------------------------------------
(* Helper functions for colour conversions. *)

Digits == <<"0", "1", "2", "3", "4", "5", "6", "7", "8", "9">>
HexDigits == <<"0", "1", "2", "3", "4", "5", "6", "7", "8", "9",
               "A", "B", "C", "D", "E", "F">>

\* int(x, 16) takes the digits in either case.
LowerHexDigits == <<"0", "1", "2", "3", "4", "5", "6", "7", "8", "9",
                    "a", "b", "c", "d", "e", "f">>

DigitChars == Range(Digits)
HexChars == Range(HexDigits)
AnyHexChars == HexChars \cup Range(LowerHexDigits)

DigitValue(c) == CHOOSE v \in 0..9 : Digits[v + 1] = c
HexValue(c) == CHOOSE v \in 0..15 : HexDigits[v + 1] = c \/ LowerHexDigits[v + 1] = c

\* The sentinel rgb_to_hex returns from its except clause.
ErrorValue == <<"E", "r", "r", "o", "r">>

\* float(part) succeeds: digits with at most one point and at least one digit.
IsFloat(part) ==
    /\ part # <<>>
    /\ Range(part) \subseteq DigitChars \cup {"."}
    /\ Cardinality({i \in 1..Len(part) : part[i] = "."}) <= 1
    /\ \E i \in 1..Len(part) : part[i] \in DigitChars

\* The value of a digit string.
RECURSIVE DecValue(_)
DecValue(ds) ==
    IF ds = <<>> THEN 0
    ELSE 10 * DecValue(SubSeq(ds, 1, Len(ds) - 1)) + DigitValue(ds[Len(ds)])

\* The integer part of 255 * 0.ds for the digits ds after the point, by long
\* multiplication from the last digit on (carry comes from the digits done).
\* The product of a drawn text is an integer or at least 10^-10 away from one,
\* far more than the error of the floating-point product, so int() of the
\* float is this integer part.
RECURSIVE FracTimes255(_, _)
FracTimes255(ds, carry) ==
    IF ds = <<>> THEN carry
    ELSE FracTimes255(SubSeq(ds, 1, Len(ds) - 1),
                      (DigitValue(ds[Len(ds)]) * 255 + carry) \div 10)

\* int(float(part) * 255) for a part that IsFloat.
IntTimes255(part) ==
    LET dot == FindIn(part, 1, {"."})
        ip  == SubSeq(part, 1, dot - 1)
        fp  == SubSeq(part, dot + 1, Len(part))
    IN  DecValue(ip) * 255 + FracTimes255(fp, 0)

\* "{:X}".format(v) for v >= 0
RECURSIVE HexOf(_)
HexOf(v) == IF v < 16 THEN <<HexDigits[v + 1]>>
            ELSE HexOf(v \div 16) \o <<HexDigits[(v % 16) + 1]>>

\* "{:02X}".format(v)
Fmt02X(v) == IF v < 16 THEN <<"0">> \o HexOf(v) ELSE HexOf(v)

\* rgb_to_hex with a fault: the "#" is left out of the format string.
rgb_to_hex_NoMarker(rgb) ==
    LET parts == Split(StripChars(Strip(rgb), {NUL})) IN
    IF (\A i \in 1..Len(parts) : IsFloat(parts[i])) /\ Len(parts) >= 3
    THEN Fmt02X(IntTimes255(parts[1])) \o Fmt02X(IntTimes255(parts[2]))
         \o Fmt02X(IntTimes255(parts[3]))
    ELSE ErrorValue

\* rgb_to_hex(rgb_string): "Error" when a part is no float or there are fewer than
\* three parts, else "#" and the three channels, each int(v * 255) in hex.
rgb_to_hex(rgb) ==
    LET parts == Split(StripChars(Strip(rgb), {NUL})) IN
    IF (\A i \in 1..Len(parts) : IsFloat(parts[i])) /\ Len(parts) >= 3
    THEN <<"#">> \o Fmt02X(IntTimes255(parts[1])) \o Fmt02X(IntTimes255(parts[2]))
         \o Fmt02X(IntTimes255(parts[3]))
    ELSE ErrorValue

\* The digits of num / 255 after the point, n of them, and the remainder left.
RECURSIVE FracDigits(_, _)
FracDigits(rem, n) ==
    IF n = 0 THEN [digits |-> <<>>, rem |-> rem]
    ELSE LET rest == FracDigits((rem * 10) % 255, n - 1) IN
         [digits |-> <<(rem * 10) \div 255>> \o rest.digits, rem |-> rest.rem]

\* A sequence of decimal digit values plus one in the last place; the first
\* element is the integer part and may grow past 9.
RECURSIVE AddOne(_)
AddOne(ds) ==
    IF Len(ds) = 1 THEN <<ds[1] + 1>>
    ELSE IF ds[Len(ds)] < 9 THEN [ds EXCEPT ![Len(ds)] = @ + 1]
    ELSE AddOne(SubSeq(ds, 1, Len(ds) - 1)) \o <<0>>

\* Number of digits after the point in f"{x:.10f}".
FloatPrecision == 10

\* f"{c / 255:.10f}" for a channel byte c: c / 255 rounded to 10 decimals.
FormatChannel(c) ==
    LET fd == FracDigits(c % 255, FloatPrecision)
        ds == <<c \div 255>> \o fd.digits
        rd == IF 2 * fd.rem > 255 THEN AddOne(ds) ELSE ds
    IN  <<Digits[rd[1] + 1], ".">> \o [i \in 1..FloatPrecision |-> Digits[rd[i + 1] + 1]]

\* int(pair, 16) of two characters raises ValueError unless both are hex digits.
IsHexPair(s, i) == s[i] \in AnyHexChars /\ s[i + 1] \in AnyHexChars
HexPair(s, i) == 16 * HexValue(s[i]) + HexValue(s[i + 1])

\* What a function that raised leaves in place of a return value.
Raised == <<"<", "r", "a", "i", "s", "e", "d", ">">>

\* hex_to_rgb_floats(hex_str): "" unless six characters are left after the
\* leading "#"s; ValueError when a pair is not hexadecimal.
hex_to_rgb_floats(h) ==
    LET s == LStrip(h, {"#"}) IN
    IF Len(s) # 6 THEN <<>>
    ELSE IF ~(IsHexPair(s, 1) /\ IsHexPair(s, 3) /\ IsHexPair(s, 5)) THEN Raised
    ELSE FormatChannel(HexPair(s, 1)) \o <<" ">> \o FormatChannel(HexPair(s, 3))
         \o <<" ">> \o FormatChannel(HexPair(s, 5))

-----------------------------------------------------------------------------
(* Payloads and token documents. *)

\* A text json.loads accepts, loading to the dict d.
JsonText(d) == [kind |-> "json", data |-> d, chars |-> <<>>, objects |-> <<>>]
\* A text json.loads rejects, with its characters.
PlainText(cs) == [kind |-> "plain", data |-> <<>>, chars |-> cs, objects |-> <<>>]
\* Bytes (or a file of them) plistlib.loads accepts, with their $objects table.
PlistBytes(objs) == [kind |-> "plist", data |-> <<>>, chars |-> <<>>, objects |-> objs]
\* A file plistlib.loads rejects.
GarbageFile == [kind |-> "garbage", data |-> <<>>, chars |-> <<>>, objects |-> <<>>]
\* Python's None.
None == [kind |-> "None", data |-> <<>>, chars |-> <<>>, objects |-> <<>>]
\* In place of a return value: an exception left the function.
RaisedPayload == [kind |-> "raised", data |-> <<>>, chars |-> <<>>, objects |-> <<>>]

\* One entry of a token dict: name -> {"$type": type, "$value": value, ...}.
\* vkind is the Python type of $value ("str", "int", "float"), value its text;
\* has_type is whether the "$type" key is there; extra holds the other keys.
Token(n, t, v) ==
    [name |-> n, type |-> t, has_type |-> TRUE, value |-> v, vkind |-> "str",
     extra |-> <<>>]

\* d[e.name] = e: an existing key keeps its place.
DictPut(d, e) ==
    IF \E i \in 1..Len(d) : d[i].name = e.name
    THEN LET i == CHOOSE j \in 1..Len(d) : d[j].name = e.name IN [d EXCEPT ![i] = e]
    ELSE Append(d, e)

ColorType == <<"c", "o", "l", "o", "r">>
NullName == <<"$", "n", "u", "l", "l">>

\* token.get("$type", "").lower() == "color"
IsColor(tok) == Lower(tok.type) = ColorType

-----------------------------------------------------------------------------
(* Conversion functions: Affinity (.clr). *)

\* An entry of $objects: a string, a dict with the key "NSRGB" (s is the payload,
\* utf8 whether it is bytes that decode as UTF-8), or any other object.
StrObj(cs) == [kind |-> "str", s |-> cs, utf8 |-> TRUE]
RgbObj(cs) == [kind |-> "rgb", s |-> cs, utf8 |-> TRUE]
BadRgbObj == [kind |-> "rgb", s |-> <<>>, utf8 |-> FALSE]
OtherObj == [kind |-> "other", s |-> <<>>, utf8 |-> TRUE]

ColorToken(n, v) == Token(n, ColorType, v)

\* The token affinity_to_json stores for a name and its NSRGB record.
DecodeRgb(name, rgb) ==
    IF rgb.utf8
    THEN ColorToken(name, rgb_to_hex(StripChars(Strip(rgb.s), {NUL})))
    ELSE ColorToken(name, ErrorValue)

\* The loop over zip(names, rgb_dicts), from pair i on.
RECURSIVE ZipLoop(_, _, _, _)
ZipLoop(names, rgbs, i, toks) ==
    IF i > Len(names) \/ i > Len(rgbs) THEN toks
    ELSE IF names[i].s = NullName THEN ZipLoop(names, rgbs, i + 1, toks)
    ELSE ZipLoop(names, rgbs, i + 1, DictPut(toks, DecodeRgb(names[i].s, rgbs[i])))

IsStrObj(o) == o.kind = "str"
IsRgbObj(o) == o.kind = "rgb"

ErrorReadingPlist == <<"Error reading plist: ", "<exception>">>

\* affinity_to_json(uploaded_file)
affinity_to_json(file) ==
    IF file.kind # "plist" THEN PlainText(ErrorReadingPlist)
    ELSE JsonText(ZipLoop(SelectSeq(file.objects, IsStrObj),
                          SelectSeq(file.objects, IsRgbObj), 1, <<>>))

\* EncodeFrom with a fault: the test of "$type" is left out, every token is
\* appended.
RECURSIVE EncodeFrom_AllTokens(_, _)
EncodeFrom_AllTokens(data, i) ==
    IF i > Len(data) THEN [raised |-> FALSE, objs |-> <<>>]
    ELSE LET rgb == IF data[i].vkind = "str" THEN hex_to_rgb_floats(data[i].value)
                    ELSE Raised
             rest == EncodeFrom_AllTokens(data, i + 1)
         IN  IF rgb = Raised THEN [raised |-> TRUE, objs |-> <<>>]
             ELSE [raised |-> rest.raised,
                   objs |-> <<StrObj(data[i].name), RgbObj(rgb)>> \o rest.objs]

\* The entries json_to_affinity appends for the tokens of data from index i on;
\* raised tells that hex_to_rgb_floats (or str.lstrip on a number) raised.
RECURSIVE EncodeFrom(_, _)
EncodeFrom(data, i) ==
    IF i > Len(data) THEN [raised |-> FALSE, objs |-> <<>>]
    ELSE IF ~IsColor(data[i]) THEN EncodeFrom(data, i + 1)
    ELSE LET rgb == IF data[i].vkind = "str" THEN hex_to_rgb_floats(data[i].value)
                    ELSE Raised
             rest == EncodeFrom(data, i + 1)
         IN  IF rgb = Raised THEN [raised |-> TRUE, objs |-> <<>>]
             ELSE [raised |-> rest.raised,
                   objs |-> <<StrObj(data[i].name), RgbObj(rgb)>> \o rest.objs]

ErrorParsingJSON == <<"Error parsing JSON", ": ", "<exception>">>

\* json_to_affinity(json_input): what it returns and what it gives to st.error.
json_to_affinity(text) ==
    IF text.kind # "json" THEN [ret |-> None, err |-> <<ErrorParsingJSON>>]
    ELSE LET enc == EncodeFrom(text.data, 1) IN
         IF enc.raised THEN [ret |-> RaisedPayload, err |-> <<>>]
         ELSE [ret |-> PlistBytes(<<StrObj(NullName)>> \o enc.objs), err |-> <<>>]

-----------------------------------------------------------------------------
(* Conversion functions: JSON <-> Tana. *)

TanaHeader == <<"%", "%", "t", "a", "n", "a", "%", "%">>
DesignTokenTag == <<" ", "#", "[", "[", "D", "e", "s", "i", "g", "n", " ", "T", "o", "k", "e", "n", "]", "]">>
TypeField == <<" ", " ", "-", " ", "T", "y", "p", "e", ":", ":", " ">>
ValueField == <<" ", " ", "-", " ", "V", "a", "l", "u", "e", ":", ":", " ">>
TypeKey == <<"t", "y", "p", "e">>
ValueKey == <<"v", "a", "l", "u", "e">>
RawValueKey == <<"r", "a", "w", "_", "v", "a", "l", "u", "e">>
DollarTypeKey == <<"$", "t", "y", "p", "e">>
DollarValueKey == <<"$", "v", "a", "l", "u", "e">>
TagOpen == <<"#", "[", "[">>
TagClose == <<"]", "]">>
FieldSep == <<":", ":">>

\* The value json_to_tana writes for a token: the leading "#" of a colour's
\* string value is removed.
TanaValue(tok) ==
    IF IsColor(tok) /\ tok.vkind = "str" /\ StartsWith(tok.value, <<"#">>)
    THEN Tail(tok.value) ELSE tok.value

\* The three lines json_to_tana writes for a token, and the blank line.
TanaBlock(tok) ==
    <<"-", " ">> \o tok.name \o DesignTokenTag \o <<"\n">>
    \o TypeField \o tok.type \o <<"\n">>
    \o ValueField \o TanaValue(tok) \o <<"\n", "\n">>

RECURSIVE TanaBlocks(_, _)
TanaBlocks(data, i) ==
    IF i > Len(data) THEN <<>> ELSE TanaBlock(data[i]) \o TanaBlocks(data, i + 1)

\* json_to_tana(json_input)
json_to_tana(text) ==
    IF text.kind # "json" THEN PlainText(ErrorParsingJSON)
    ELSE PlainText(TanaHeader \o <<"\n", "\n">> \o TanaBlocks(text.data, 1))

\* re.sub(r'#\[\[.*?\]\]', '', s): every "#[[" up to the nearest "]]" is removed.
RECURSIVE ReSubTag(_)
ReSubTag(s) ==
    LET i == Find(s, TagOpen, 1) IN
    IF i = 0 THEN s
    ELSE LET j == Find(s, TagClose, i + 3) IN
         IF j = 0 THEN s
         ELSE SubSeq(s, 1, i - 1) \o ReSubTag(SubSeq(s, j + 2, Len(s)))

\* re.split(r'(?m)^(?=- )', body) on the joined lines: a block starts at the first
\* line and at every line that starts with "- ".  The blocks from line i on, the
\* block being built in cur.
RECURSIVE BlocksFrom(_, _, _)
BlocksFrom(lines, i, cur) ==
    IF i > Len(lines) THEN (IF cur = <<>> THEN <<>> ELSE <<cur>>)
    ELSE IF StartsWith(lines[i], <<"-", " ">>) /\ cur # <<>>
         THEN <<cur>> \o BlocksFrom(lines, i + 1, <<lines[i]>>)
         ELSE BlocksFrom(lines, i + 1, Append(cur, lines[i]))

\* A digit string without its leading zeros ("0" for zero).
StripLeadingZeros(ds) ==
    LET a == SkipFwd(ds, 1, {"0"}) IN
    IF a > Len(ds) THEN <<"0">> ELSE SubSeq(ds, a, Len(ds))

\* The $value of a token that is not a colour: float(raw_val) as an int when it is
\* whole, as a float otherwise, raw_val itself when float() raises.
InferValue(raw) ==
    IF ~IsFloat(raw) THEN [vkind |-> "str", value |-> raw]
    ELSE LET dot == FindIn(raw, 1, {"."})
             ip  == StripLeadingZeros(SubSeq(raw, 1, dot - 1))
             fp  == SubSeq(raw, dot + 1, SkipBack(raw, Len(raw), {"0"}))
         IN  IF fp = <<>> THEN [vkind |-> "int", value |-> ip]
             ELSE [vkind |-> "float", value |-> ip \o <<".">> \o fp]

\* token_dict[field] = value for a field that is neither Type nor Value.
ExtraPut(extra, field, value) ==
    IF \E i \in 1..Len(extra) : extra[i][1] = field
    THEN [i \in 1..Len(extra) |-> IF extra[i][1] = field THEN <<field, value>> ELSE extra[i]]
    ELSE Append(extra, <<field, value>>)

\* The loop over token_lines[1:]: the fields read from line i on into the dict td.
\* A field named "raw_value" or "$type" is stored under the very key that Value
\* and Type use; one named "$value" is overwritten once the loop has ended.
RECURSIVE FieldsFrom(_, _, _)
FieldsFrom(lines, i, td) ==
    IF i > Len(lines) THEN td
    ELSE LET line == Strip(lines[i]) IN
         IF ~(StartsWith(line, <<"-">>) /\ Find(line, FieldSep, 1) > 0)
         THEN FieldsFrom(lines, i + 1, td)
         ELSE LET content == Strip(LStrip(line, {"-"}))
                  k       == Find(content, FieldSep, 1)
                  field   == Strip(SubSeq(content, 1, k - 1))
                  value   == Strip(SubSeq(content, k + 2, Len(content)))
              IN  FieldsFrom(lines, i + 1,
                    IF Lower(field) = TypeKey
                    THEN [td EXCEPT !.type = value, !.has_type = TRUE]
                    ELSE IF Lower(field) = ValueKey \/ field = RawValueKey
                    THEN [td EXCEPT !.raw_value = value]
                    ELSE IF field = DollarTypeKey
                    THEN [td EXCEPT !.type = value, !.has_type = TRUE]
                    ELSE IF field = DollarValueKey
                    THEN td
                    ELSE [td EXCEPT !.extra = ExtraPut(@, field, value)])

\* ColorValue with a fault: raw_val is stored as it is.
ColorValue_Raw(raw) == raw

\* The "$value" tana_to_json stores for a colour: "#" is put before raw_val
\* unless it starts with one.
ColorValue(raw) == IF StartsWith(raw, <<"#">>) THEN raw ELSE <<"#">> \o raw

\* The entry of result for one block of lines.
ParseBlock(block) ==
    LET header == Strip(LStrip(Strip(block[1]), {"-"}))
        name   == Strip(ReSubTag(header))
        td     == FieldsFrom(block, 2, [type |-> <<>>, has_type |-> FALSE,
                                        raw_value |-> <<>>, extra |-> <<>>])
        val    == IF Lower(td.type) = ColorType
                  THEN [vkind |-> "str", value |-> ColorValue(td.raw_value)]
                  ELSE InferValue(td.raw_value)
    IN  [name |-> name, type |-> td.type, has_type |-> td.has_type,
         value |-> val.value, vkind |-> val.vkind, extra |-> td.extra]

RECURSIVE ParseBlocks(_, _, _)
ParseBlocks(blocks, i, result) ==
    IF i > Len(blocks) THEN result
    ELSE ParseBlocks(blocks, i + 1, DictPut(result, ParseBlock(blocks[i])))

IsNotBlank(line) == Strip(line) # <<>>

\* tana_to_json(tana_input)
tana_to_json(text) ==
    LET nonblank == SelectSeq(SplitLines(text.chars), IsNotBlank)
        lines    == IF nonblank # <<>> /\ Strip(nonblank[1]) = TanaHeader
                    THEN Tail(nonblank) ELSE nonblank
    IN  JsonText(ParseBlocks(BlocksFrom(lines, 1, <<>>), 1, <<>>))

-----------------------------------------------------------------------------
(* The value of a variable a specification does not use. *)
Unused == <<>>

-----------------------------------------------------------------------------
(* SpecColor: hex_to_rgb_floats applied to a drawn colour, then rgb_to_hex    *)
(* applied to what it returned.                                             *)

\* Channel bytes paired with every byte 0..255 in the drawn colours.
ByteSamples == {0, 151, 255}

ChannelHex(c) == <<HexDigits[(c \div 16) + 1], HexDigits[(c % 16) + 1]>>

\* Six uppercase hex digits: every byte in one channel, sample bytes in the others.
HexColors ==
    UNION {{ChannelHex(c) \o ChannelHex(x) \o ChannelHex(y),
            ChannelHex(x) \o ChannelHex(c) \o ChannelHex(y),
            ChannelHex(x) \o ChannelHex(y) \o ChannelHex(c)} :
           <<c, x, y>> \in (0..255) \X ByteSamples \X ByteSamples}

\* Strings hex_to_rgb_floats does not take for a colour.
BadHexStrings == {<<>>, <<"#">>, <<"#", "F", "F", "F">>,
                  <<"#", "G", "G", "0", "0", "0", "0">>,
                  <<"F", "F", "0", "0", "0", "0", "0", "0">>}

HexInputs == HexColors \cup {<<"#">> \o h : h \in HexColors} \cup BadHexStrings
             \cup {<<"#", "9", "7", "f", "f", "c", "b">>}

InitColor ==
    /\ pc = "start"
    /\ hex_str \in HexInputs
    /\ rgb_string = Unused /\ hex_val = Unused
    /\ json_input = Unused /\ plist_bytes = Unused /\ tana_input = Unused
    /\ tokens = Unused /\ intermediate = Unused
    /\ source_format = Unused /\ target_format = Unused
    /\ source_data = Unused /\ output = Unused /\ st_error = Unused

HexToRgbFloats ==
    /\ pc = "start"
    /\ rgb_string' = hex_to_rgb_floats(hex_str)
    /\ pc' = "floats"
    /\ UNCHANGED <<hex_str, hex_val, json_input, plist_bytes, tana_input, tokens,
                   intermediate, source_format, target_format, source_data, output, st_error>>

RgbToHex ==
    /\ pc = "floats"
    /\ rgb_string # Raised
    /\ hex_val' = rgb_to_hex(rgb_string)
    /\ pc' = "hex"
    /\ UNCHANGED <<hex_str, rgb_string, json_input, plist_bytes, tana_input, tokens,
                   intermediate, source_format, target_format, source_data, output, st_error>>

NextColor == HexToRgbFloats \/ RgbToHex

SpecColor == InitColor /\ [][NextColor]_vars

IsHexColor(h) == Len(h) = 6 /\ Range(h) \subseteq HexChars

\* C4: for every colour h of six uppercase hex digits (with or without the
\* leading "#"), rgb_to_hex(hex_to_rgb_floats(h)) is "#" and the digits of h.
HexRoundTrip ==
    (pc = "hex" /\ IsHexColor(LStrip(hex_str, {"#"})))
        => hex_val = <<"#">> \o LStrip(hex_str, {"#"})

-----------------------------------------------------------------------------
(* SpecPalette: json_to_affinity applied to a drawn document and            *)
(* affinity_to_json to the container it returned, or affinity_to_json       *)
(* applied to a drawn container.                                            *)

\* A text json.loads rejects.
NotJson == PlainText(<<"{", "n", "o", "t", " ", "j", "s", "o", "n">>)

\* The sequences over the set S of length at most n without two elements of
\* the same name.
DictsUpTo(S, n) ==
    {d \in SeqsUpTo(S, n) : \A i, j \in 1..Len(d) : d[i].name = d[j].name => i = j}

PaletteNames == {<<"a">>, <<"b">>, <<"A", "c", "c", "e", "n", "t">>}
PaletteTypes == {ColorType, <<"C", "o", "l", "o", "r">>, <<"n", "u", "m", "b", "e", "r">>}
PaletteValues == {<<"#", "F", "F", "0", "0", "0", "0">>,
                  <<"#", "0", "1", "0", "2", "0", "3">>,
                  <<"#", "9", "7", "F", "F", "C", "B">>,
                  <<"#", "F", "F", "F">>,
                  <<"#", "G", "G", "0", "0", "0", "0">>}

PaletteTokens ==
    {Token(n, t, v) : <<n, t, v>> \in PaletteNames \X PaletteTypes \X PaletteValues}

PaletteDocs == DictsUpTo(PaletteTokens, MaxTokens)

\* The entries drawn for a container's $objects.
ObjectPool == {StrObj(NullName), StrObj(<<"A", "c", "c", "e", "n", "t">>), StrObj(<<"b">>),
               RgbObj(<<"1", " ", "0", " ", "0">>),
               RgbObj(<<"0", " ", "0", ".", "5", " ", "1", NUL>>),
               RgbObj(<<"1", " ", "x", " ", "0">>),
               BadRgbObj, OtherObj}

ObjectTables == SeqsUpTo(ObjectPool, MaxObjects + 1)

InitPalette ==
    /\ \/ /\ pc = "start"
          /\ json_input \in {JsonText(d) : d \in PaletteDocs}
                            \cup {NotJson}
          /\ plist_bytes = Unused
       \/ /\ pc = "file"
          /\ json_input = Unused
          /\ plist_bytes \in {PlistBytes(t) : t \in ObjectTables} \cup {GarbageFile}
    /\ tokens = Unused /\ st_error = <<>>
    /\ hex_str = Unused /\ rgb_string = Unused /\ hex_val = Unused
    /\ tana_input = Unused /\ intermediate = Unused
    /\ source_format = Unused /\ target_format = Unused
    /\ source_data = Unused /\ output = Unused

JsonToAffinity ==
    /\ pc = "start"
    /\ LET r == json_to_affinity(json_input) IN
         /\ plist_bytes' = r.ret
         /\ st_error' = st_error \o r.err
    /\ pc' = "encoded"
    /\ UNCHANGED <<hex_str, rgb_string, hex_val, json_input, tana_input, tokens,
                   intermediate, source_format, target_format, source_data, output>>

AffinityToJson ==
    /\ pc \in {"encoded", "file"}
    /\ plist_bytes.kind \in {"plist", "garbage"}
    /\ tokens' = affinity_to_json(plist_bytes)
    /\ pc' = IF pc = "encoded" THEN "decoded" ELSE "read"
    /\ UNCHANGED <<hex_str, rgb_string, hex_val, json_input, plist_bytes, tana_input,
                   intermediate, source_format, target_format, source_data, output,
                   st_error>>

NextPalette == JsonToAffinity \/ AffinityToJson

SpecPalette == InitPalette /\ [][NextPalette]_vars

\* The colour tokens of a dict, in its order.
ColorTokens(d) == SelectSeq(d, IsColor)

\* v is "#" and six uppercase hex digits.
IsHexValue(v) == Len(v) = 7 /\ v[1] = "#" /\ IsHexColor(Tail(v))

Abs(x) == IF x < 0 THEN -x ELSE x

\* Two hex colours whose channels differ by at most one step of the 8-bit scale.
SameHexUpToRounding(v, w) ==
    /\ IsHexValue(v) /\ IsHexValue(w)
    /\ \A i \in {2, 4, 6} : Abs(HexPair(v, i) - HexPair(w, i)) <= 1

\* C1: decoding the container json_to_affinity built from a document D gives a
\* document that holds every colour token of D (one with a hex colour for its
\* value) under its name with the same colour up to rounding of the 8-bit
\* channels, and holds no token of D that is not a colour.
PaletteRoundTrip ==
    (pc = "decoded" /\ tokens.kind = "json") =>
        /\ \A i \in 1..Len(json_input.data) :
             LET tok == json_input.data[i] IN
             (IsColor(tok) /\ IsHexValue(tok.value)) =>
                 \E j \in 1..Len(tokens.data) :
                     /\ tokens.data[j].name = tok.name
                     /\ SameHexUpToRounding(tokens.data[j].value, tok.value)
        /\ \A i \in 1..Len(json_input.data) :
             ~IsColor(json_input.data[i]) =>
                 \A j \in 1..Len(tokens.data) :
                     tokens.data[j].name # json_input.data[i].name

\* A table of one leading "$null", then name strings and NSRGB records in turn.
IsAlternating(t) ==
    /\ Len(t) >= 3 /\ Len(t) % 2 = 1
    /\ t[1] = StrObj(NullName)
    /\ \A i \in 2..Len(t) :
         IF i % 2 = 0 THEN t[i].kind = "str" /\ t[i].s # NullName
         ELSE t[i].kind = "rgb"

\* C2: for a table of one leading "$null" and then names and NSRGB records in
\* turn, affinity_to_json gives the Nth name the colour of the Nth record
\* (a name met again later takes the later record).
PaletteDecodePairing ==
    (pc = "read" /\ plist_bytes.kind = "plist" /\ IsAlternating(plist_bytes.objects)) =>
        LET t == plist_bytes.objects IN
        \A n \in 1..((Len(t) - 1) \div 2) :
            (\A m \in (n + 1)..((Len(t) - 1) \div 2) : t[2 * m].s # t[2 * n].s) =>
                \E j \in 1..Len(tokens.data) :
                    tokens.data[j] = DecodeRgb(t[2 * n].s, t[2 * n + 1])

\* C8: every string of $objects other than "$null" has a token of its name in
\* what affinity_to_json returns for a readable container, and a token whose
\* record could not be decoded or converted has the value "Error".
PaletteDecodeTotal ==
    (pc \in {"read", "decoded"} /\ plist_bytes.kind = "plist") =>
        /\ \A i \in 1..Len(plist_bytes.objects) :
             LET o == plist_bytes.objects[i] IN
             (o.kind = "str" /\ o.s # NullName) =>
                 \E j \in 1..Len(tokens.data) : tokens.data[j].name = o.s
        /\ \A j \in 1..Len(tokens.data) :
             tokens.data[j].value = ErrorValue \/ tokens.data[j].value[1] = "#"

-----------------------------------------------------------------------------
(* SpecOutline: json_to_tana applied to a drawn document and tana_to_json   *)
(* to the text it returned, or tana_to_json applied to a drawn text.        *)

\* The characters of the drawn names: a letter, the characters strip, lstrip,
\* splitlines and the tag pattern act on.
NameChars == {"a", " ", "-", "#", "[", "\n"}
OutlineNames == SeqsUpTo(NameChars, MaxNameLen)
OutlineTypes == {ColorType, <<"C", "o", "l", "o", "r">>, <<"n", "u", "m", "b", "e", "r">>}
HexValues == {<<"#", "F", "F", "0", "0", "0", "0">>, <<"#", "9", "7", "F", "F", "C", "B">>}
OutlineValues == HexValues \cup {<<"F", "F", "0", "0", "0", "0">>, <<"#", "#", "F", "F", "0", "0", "0", "0">>, <<"#", " ", "F", "F">>, <<"#", "F", "F", " ">>, <<"#", "F", "\n", "F">>, <<"#">>, <<"4">>}

\* The tokens drawn with any name, and those drawn with any value.
WildTokens ==
    {Token(n, t, <<"#", "F", "F", "0", "0", "0", "0">>) :
       <<n, t>> \in OutlineNames \X OutlineTypes}
    \cup {Token(<<"a">>, t, v) : <<t, v>> \in OutlineTypes \X OutlineValues}
\* The tokens drawn beside them.
PlainTokens == {Token(<<"a">>, ColorType, <<"#", "F", "F", "0", "0", "0", "0">>),
                Token(<<"b">>, ColorType, <<"#", "9", "7", "F", "F", "C", "B">>)}

\* d with w put in after its first k entries.
InsertAt(d, k, w) == SubSeq(d, 1, k) \o <<w>> \o SubSeq(d, k + 1, Len(d))

OutlineDocs ==
    LET plain == DictsUpTo(PlainTokens, MaxTokens - 1) IN
    plain \cup {InsertAt(d, k, w) : <<d, k, w>> \in
                  {x \in plain \X (0..(MaxTokens - 1)) \X WildTokens :
                     /\ x[2] <= Len(x[1])
                     /\ \A i \in 1..Len(x[1]) : x[1][i].name # x[3].name}}

\* The lines of the drawn texts.
LinePool == {<<"%", "%", "t", "a", "n", "a", "%", "%">>,
             <<"-", " ", "a", " ", "#", "[", "[", "D", "e", "s", "i", "g", "n", " ", "T", "o", "k", "e", "n", "]", "]">>,
             <<" ", " ", "-", " ", "T", "y", "p", "e", ":", ":", " ", "c", "o", "l", "o", "r">>,
             <<"-", " ", "T", "y", "p", "e", ":", ":", " ", "C", "o", "l", "o", "r">>,
             <<" ", " ", "-", " ", "V", "a", "l", "u", "e", ":", ":", " ", "#", "F", "F", "0", "0", "0", "0">>,
             <<" ", " ", "-", " ", "V", "a", "l", "u", "e", ":", ":", " ", "0", "4", ".", "5", "0">>,
             <<" ", " ", "-", " ", "N", "o", "t", "e", ":", ":", " ", "x">>,
             <<" ", "-", "$", "t", "y", "p", "e", ":", ":", "c", "o", "l", "o", "r">>,
             <<>>}

TanaTexts == {PlainText(JoinLines(ls)) : ls \in SeqsUpTo(LinePool, MaxLines)}

InitOutline ==
    /\ \/ /\ pc = "start"
          /\ json_input \in {JsonText(d) : d \in OutlineDocs} \cup {NotJson}
          /\ tana_input = Unused
       \/ /\ pc = "text"
          /\ json_input = Unused
          /\ tana_input \in TanaTexts
    /\ tokens = Unused
    /\ hex_str = Unused /\ rgb_string = Unused /\ hex_val = Unused
    /\ plist_bytes = Unused /\ intermediate = Unused /\ st_error = Unused
    /\ source_format = Unused /\ target_format = Unused
    /\ source_data = Unused /\ output = Unused

JsonToTana ==
    /\ pc = "start"
    /\ tana_input' = json_to_tana(json_input)
    /\ pc' = "encoded"
    /\ UNCHANGED <<hex_str, rgb_string, hex_val, json_input, plist_bytes, tokens,
                   intermediate, source_format, target_format, source_data, output,
                   st_error>>

TanaToJson ==
    /\ \/ pc = "encoded" /\ json_input.kind = "json"
       \/ pc = "text"
    /\ tokens' = tana_to_json(tana_input)
    /\ pc' = IF pc = "encoded" THEN "decoded" ELSE "read"
    /\ UNCHANGED <<hex_str, rgb_string, hex_val, json_input, plist_bytes, tana_input,
                   intermediate, source_format, target_format, source_data, output,
                   st_error>>

NextOutline == JsonToTana \/ TanaToJson

SpecOutline == InitOutline /\ [][NextOutline]_vars

\* The names, types and values of a dict.
Meaning(d) == {<<d[i].name, d[i].type, d[i].vkind, d[i].value>> : i \in 1..Len(d)}

\* Same names, and for each name the same $type and the same $value.
SemanticallyEqual(d, e) ==
    /\ Meaning(d) = Meaning(e)
    /\ \A i \in 1..Len(e) : e[i].has_type /\ e[i].extra = <<>>

OnlyColors(d) == \A i \in 1..Len(d) : IsColor(d[i])

\* C5 as stated: for every document D of colour tokens only (each value "#" and
\* six hex digits), tana_to_json(json_to_tana(D)) is semantically equal to D.
OutlineRoundTripAny ==
    (pc = "decoded" /\ OnlyColors(json_input.data)
       /\ \A i \in 1..Len(json_input.data) : IsHexValue(json_input.data[i].value)) =>
        SemanticallyEqual(json_input.data, tokens.data)

HasLineBreak(s) == \E i \in 1..Len(s) : s[i] \in LineBreaks

\* A name tana_to_json reads back as written: no whitespace at its ends, no line
\* break, no "#[[".
IsPlainName(n) == Strip(n) = n /\ ~HasLineBreak(n) /\ Find(n, TagOpen, 1) = 0

\* A colour value tana_to_json reads back as written: a string of "#" and a
\* rest that has no whitespace at its ends, no line break and no "#" in front.
IsMarkedValue(tok) ==
    /\ tok.vkind = "str" /\ StartsWith(tok.value, <<"#">>)
    /\ LET rest == Tail(tok.value) IN
         Strip(rest) = rest /\ ~HasLineBreak(rest) /\ ~StartsWith(rest, <<"#">>)

ReadsBack(d) == \A i \in 1..Len(d) : IsPlainName(d[i].name) /\ IsMarkedValue(d[i])

\* C5, amended: for every document D of colour tokens only whose names have no
\* whitespace at either end, no line break and no "#[[", and whose values are
\* "#" and a rest with no whitespace at either end, no line break and no second
\* leading "#", tana_to_json(json_to_tana(D)) is semantically equal to D.
OutlineRoundTrip ==
    (pc = "decoded" /\ OnlyColors(json_input.data) /\ ReadsBack(json_input.data)) =>
        SemanticallyEqual(json_input.data, tokens.data)

\* A document of two colour tokens, one named "-a", went through both functions.
OutlineRoundTripWitness ==
    /\ pc = "decoded" /\ OnlyColors(json_input.data) /\ ReadsBack(json_input.data)
    /\ Len(json_input.data) = 2 /\ Len(tokens.data) = 2
    /\ \E i \in 1..2 : json_input.data[i].name = <<"-", "a">>

-----------------------------------------------------------------------------
(* Conversion functions: Adobe (ASE), and the main app.                     *)

\* adobe_to_json(uploaded_file)
adobe_to_json(file) ==
    PlainText(<<"Adobe ASE to JSON conversion ", "not implemented", " yet.">>)

\* json_to_adobe(json_input)
json_to_adobe(text) ==
    PlainText(<<"JSON to Adobe ASE conversion ", "not implemented", " yet.">>)

Affinity == "Affinity (.clr)"
FigmaJSON == "Figma JSON"
TanaPaste == "Tana Paste"
AdobeASE == "Adobe ASE"

formats == <<Affinity, FigmaJSON, TanaPaste, AdobeASE>>

\* An uploaded .ase file.
AseFile == [kind |-> "ase", data |-> <<>>, chars |-> <<>>, objects |-> <<>>]

\* The output main builds from the bytes json_to_affinity returned: the download
\* link with the bytes in base64, and the container rendered as XML.
ClrOutput(bytes) ==
    [kind |-> "plain", data |-> <<>>,
     chars |-> <<"Download your .clr file: <a href='data:application/octet-stream;base64,",
                 "<b64>", "' download='export.clr'>Download .clr File</a>", "\n", "\n",
                 "CLR File Contents (XML):\n", "<xml>">>,
     objects |-> bytes.objects]

EmptyText == PlainText(<<>>)

PleaseUploadClr == <<"Please upload a .clr file.">>
PleaseUploadAse == <<"Please upload an ASE file.">>
AffinityToAseMsg == <<"Conversion from Affinity to Adobe ASE ", "not implemented", ".">>
AseToAffinityMsg == <<"Conversion from Adobe ASE to Affinity ", "not implemented", ".">>
TanaToAseMsg == <<"Conversion from Tana Paste to Adobe ASE ", "not implemented", " yet.">>
NoConversionNeeded == <<"No conversion needed.">>
NotImplementedYet == <<"This conversion is ", "not implemented", " yet.">>

\* What the body of "if st.button('Convert')" leaves: the output, the
\* intermediate JSON (None when the branch has none), the messages for st.error.
Result(out, mid, errs) == [output |-> out, intermediate |-> mid, errors |-> errs]

\* ViaAffinity with a fault: the message of json_to_affinity is not shown.
ViaAffinity_Silent(text, mid) ==
    LET r == json_to_affinity(text) IN
    IF r.ret.kind = "raised" THEN Result(RaisedPayload, mid, <<>>)
    ELSE IF r.ret.kind = "None" THEN Result(EmptyText, mid, <<>>)
    ELSE Result(ClrOutput(r.ret), mid, <<>>)

\* The branches that end in json_to_affinity: its bytes become the output, None
\* leaves the output empty, an exception leaves main.
ViaAffinity(text, mid) ==
    LET r == json_to_affinity(text) IN
    IF r.ret.kind = "raised" THEN Result(RaisedPayload, mid, r.err)
    ELSE IF r.ret.kind = "None" THEN Result(EmptyText, mid, r.err)
    ELSE Result(ClrOutput(r.ret), mid, r.err)

\* The if/elif chain of main for a source format, a target format and the data.
Dispatch(src, tgt, data) ==
    CASE src = Affinity /\ tgt = FigmaJSON ->
           IF data.kind = "None" THEN Result(EmptyText, None, <<PleaseUploadClr>>)
           ELSE Result(affinity_to_json(data), None, <<>>)
      [] src = Affinity /\ tgt = TanaPaste ->
           IF data.kind = "None" THEN Result(EmptyText, None, <<PleaseUploadClr>>)
           ELSE LET mid == affinity_to_json(data) IN Result(json_to_tana(mid), mid, <<>>)
      [] src = Affinity /\ tgt = AdobeASE ->
           Result(EmptyText, None, <<AffinityToAseMsg>>)
      [] src = FigmaJSON /\ tgt = TanaPaste -> Result(json_to_tana(data), None, <<>>)
      [] src = FigmaJSON /\ tgt = Affinity -> ViaAffinity(data, None)
      [] src = FigmaJSON /\ tgt = AdobeASE -> Result(json_to_adobe(data), None, <<>>)
      [] src = FigmaJSON /\ tgt = FigmaJSON -> Result(data, None, <<>>)
      [] src = TanaPaste /\ tgt = FigmaJSON -> Result(tana_to_json(data), None, <<>>)
      [] src = TanaPaste /\ tgt = Affinity ->
           LET mid == tana_to_json(data) IN ViaAffinity(mid, mid)
      [] src = TanaPaste /\ tgt = AdobeASE -> Result(PlainText(TanaToAseMsg), None, <<>>)
      [] src = TanaPaste /\ tgt = TanaPaste -> Result(data, None, <<>>)
      [] src = AdobeASE /\ tgt = FigmaJSON ->
           IF data.kind = "None" THEN Result(EmptyText, None, <<PleaseUploadAse>>)
           ELSE Result(adobe_to_json(data), None, <<>>)
      [] src = AdobeASE /\ tgt = Affinity ->
           Result(EmptyText, None, <<AseToAffinityMsg>>)
      [] src = AdobeASE /\ tgt = TanaPaste ->
           IF data.kind = "None" THEN Result(EmptyText, None, <<PleaseUploadAse>>)
           ELSE LET mid == adobe_to_json(data) IN Result(json_to_tana(mid), mid, <<>>)
      [] src = AdobeASE /\ tgt = AdobeASE ->
           IF data.kind = "None" THEN Result(EmptyText, None, <<PleaseUploadAse>>)
           ELSE Result(PlainText(NoConversionNeeded), None, <<>>)
      [] OTHER -> Result(PlainText(NotImplementedYet), None, <<>>)

\* What main can hold as source_data for a source format: an uploaded file or
\* None for the file formats, the text of the text area for the others.
SourceData(src) ==
    CASE src = Affinity -> {None, GarbageFile} \cup {PlistBytes(t) : t \in ObjectTables}
      [] src = AdobeASE -> {None, AseFile}
      [] src = FigmaJSON -> {JsonText(d) : d \in PaletteDocs} \cup {NotJson}
      [] src = TanaPaste -> TanaTexts

Init ==
    /\ pc = "idle"
    /\ source_format \in Range(formats)
    /\ target_format \in Range(formats)
    /\ source_data \in SourceData(source_format)
    /\ output = EmptyText /\ intermediate = None /\ st_error = <<>>
    /\ hex_str = Unused /\ rgb_string = Unused /\ hex_val = Unused
    /\ json_input = Unused /\ plist_bytes = Unused /\ tana_input = Unused
    /\ tokens = Unused

\* The Convert button is pressed.
Convert ==
    /\ pc = "idle"
    /\ LET r == Dispatch(source_format, target_format, source_data) IN
         /\ output' = r.output
         /\ intermediate' = r.intermediate
         /\ st_error' = st_error \o r.errors
    /\ pc' = "done"
    /\ UNCHANGED <<hex_str, rgb_string, hex_val, json_input, plist_bytes, tana_input,
                   tokens, source_format, target_format, source_data>>

Next == Convert

Spec == Init /\ [][Next]_vars

\* msg holds the piece p.
Contains(msg, p) == \E i \in 1..Len(msg) : msg[i] = p

\* C3: a conversion whose source format is its target format returns the payload
\* it was given, for each of the four formats.
IdentityConversion ==
    (pc = "done" /\ source_format = target_format /\ source_data.kind # "None") =>
        output = source_data

\* C6 as stated: with source Figma JSON, a text json.loads rejects and any other
\* target, the result (the output, or the message given to st.error) is an error
\* string that holds "Error parsing JSON", and no exception leaves the conversion.
MalformedJsonAnyTarget ==
    (pc = "done" /\ source_format = FigmaJSON /\ target_format # FigmaJSON
       /\ source_data.kind # "json") =>
        /\ output.kind = "plain"
        /\ \/ Contains(output.chars, "Error parsing JSON")
           \/ \E i \in 1..Len(st_error) : Contains(st_error[i], "Error parsing JSON")

\* C6, amended: with source Figma JSON and a text json.loads rejects, no exception
\* leaves the conversion and: for target Tana Paste the output is an error string
\* that holds "Error parsing JSON"; for target Affinity (.clr) the message that
\* holds "Error parsing JSON" is given to st.error and the output is empty; for
\* target Adobe ASE the output is the fixed string
\* "JSON to Adobe ASE conversion not implemented yet.".
MalformedJson ==
    (pc = "done" /\ source_format = FigmaJSON /\ target_format # FigmaJSON
       /\ source_data.kind # "json") =>
        /\ output.kind = "plain"
        /\ target_format = TanaPaste =>
             Contains(output.chars, "Error parsing JSON") /\ st_error = <<>>
        /\ target_format = Affinity =>
             /\ output = EmptyText
             /\ Len(st_error) = 1 /\ Contains(st_error[1], "Error parsing JSON")
        /\ target_format = AdobeASE =>
             output = json_to_adobe(source_data) /\ st_error = <<>>

\* A text json.loads rejects was converted from Figma JSON to Affinity (.clr).
MalformedJsonWitness ==
    /\ pc = "done" /\ source_format = FigmaJSON /\ target_format = Affinity
    /\ source_data = NotJson /\ st_error # <<>>

\* The conversion ended in a fixed "not implemented" message, as the output or
\* through st.error with no output.
IsNotImplementedResult ==
    \/ output.kind = "plain" /\ Contains(output.chars, "not implemented")
    \/ /\ output = EmptyText
       /\ Len(st_error) = 1 /\ Contains(st_error[1], "not implemented")

\* C7: every conversion between Adobe ASE and another format ends in a fixed
\* "not implemented" result, and what the ASE placeholder returned is not given
\* to another codec.
UnsupportedPairs ==
    (pc = "done" /\ source_format # target_format /\ source_data.kind # "None"
       /\ (source_format = AdobeASE \/ target_format = AdobeASE)) =>
        /\ IsNotImplementedResult
        /\ intermediate = None

\* The JSON documents the decoders returned in this conversion.
DecodedDocs ==
    {d \in {output, intermediate} :
        /\ d.kind = "json"
        /\ source_format \in {Affinity, TanaPaste}
        /\ d = output => target_format = FigmaJSON}

\* C9 as stated: every token of type color in a document a decoder returned has
\* a $value that starts with "#".
LeadingMarkerAlways ==
    pc = "done" =>
        \A d \in DecodedDocs : \A i \in 1..Len(d.data) :
            IsColor(d.data[i]) => StartsWith(d.data[i].value, <<"#">>)

\* C9, amended: every token of type color in a document a decoder returned has a
\* $value that starts with "#", or, from affinity_to_json only, the sentinel
\* "Error" of a record that could not be decoded or converted.
LeadingMarker ==
    pc = "done" =>
        \A d \in DecodedDocs : \A i \in 1..Len(d.data) :
            IsColor(d.data[i]) =>
                \/ StartsWith(d.data[i].value, <<"#">>)
                \/ source_format = Affinity /\ d.data[i].value = ErrorValue

\* A container was decoded to a colour with its "#" and to a sentinel.
LeadingMarkerWitness ==
    /\ pc = "done" /\ target_format = FigmaJSON /\ output.kind = "json"
    /\ source_format = Affinity
    /\ \E i, j \in 1..Len(output.data) :
         /\ StartsWith(output.data[i].value, <<"#">>)
         /\ output.data[j].value = ErrorValue

====
